---- MODULE Spec2Model ----
(***************************************************************************)
(* The attendance system of streamlit_app.py: one SQLite connection shared *)
(* by every browser session (init_database is a cached resource opened     *)
(* with check_same_thread=False), the registration form, and the QR        *)
(* scanner page.  Each session runs its page script in a thread of its     *)
(* own, so the statements of two scanner runs interleave; every statement  *)
(* that reads the store or the wall clock is a step of its own.            *)
(***************************************************************************)
EXTENDS Naturals, Sequences, FiniteSets

\* ------------------------------------------------------------------ bounds
MaxStudents == 2
MaxDays == 2
MaxRecords == 2

\* ------------------------------------------------------ program constants
\* The department selectbox of the registration form.
DEPARTMENTS ==
    << "Computer Science and Engineering",
       "Electronics and Communication Engineering",
       "Mechanical Engineering",
       "Civil Engineering",
       "Electrical and Electronics Engineering",
       "Information Technology" >>

DepartmentSet == {DEPARTMENTS[i] : i \in 1..Len(DEPARTMENTS)}

\* ------------------------------------------------------------ input pools
\* The departments the model's users pick in the selectbox.
DeptInputs == {DEPARTMENTS[1], DEPARTMENTS[6]}

\* What str(uuid.uuid4())[:8].upper() returns in the model's runs: 8
\* upper-case hex digits, the same token again when uuid4 collides.
BarcodePool == {"3F2A9C1B", "7D40E8A6", "0B9E55F1"}

RegNoInputs == {"", "CS001", "CS002", "CS003"}
NameInputs == {"", "Ann"}
PhoneInputs == {"", "+1234567890"}

\* Text typed into the scanner box: a sequence of symbols, each a blank or
\* a word without blanks.
ScanInputs ==
    { <<>>, <<" ">>, <<"UNKNOWN">>, <<" ", "3F2A9C1B", " ">> }
    \cup { <<b>> : b \in BarcodePool }

\* The browser sessions, each a thread running the page script.
Sessions == {"s1", "s2"}

\* ------------------------------------------------------------- wall clock
\* The first day the model's clock shows; days run on from it.
StartDate == [year |-> 2024, month |-> 3, day |-> 9]
Days == StartDate.day .. (StartDate.day + MaxDays - 1)

\* The instants of a day the clock of Spec steps through.
TIMES ==
    << [hour |-> 9,  minute |-> 59, second |-> 59],
       [hour |-> 10, minute |-> 0,  second |-> 0],
       [hour |-> 23, minute |-> 59, second |-> 59] >>

Instant(d, i) ==
    [day |-> d, hour |-> TIMES[i].hour, minute |-> TIMES[i].minute,
     second |-> TIMES[i].second]

DIGITS == << "0", "1", "2", "3", "4", "5", "6", "7", "8", "9" >>
Chr(n) == DIGITS[n + 1]
Ord(c) == (CHOOSE i \in 1..Len(DIGITS) : DIGITS[i] = c) - 1
TwoDigits(n) == << Chr(n \div 10), Chr(n % 10) >>
FourDigits(n) == TwoDigits(n \div 100) \o TwoDigits(n % 100)

\* datetime.now().strftime('%Y-%m-%d')
FormatDate(t) ==
    FourDigits(StartDate.year) \o <<"-">> \o TwoDigits(StartDate.month)
        \o <<"-">> \o TwoDigits(t.day)

\* datetime.now().strftime('%H:%M:%S')
FormatTime(t) ==
    TwoDigits(t.hour) \o <<":">> \o TwoDigits(t.minute) \o <<":">>
        \o TwoDigits(t.second)

\* Seconds since the start of day 0, to order instants.
Key(t) == ((t.day * 24 + t.hour) * 60 + t.minute) * 60 + t.second

SpecInstants == {Instant(d, i) : d \in Days, i \in 1..Len(TIMES)}

\* ------------------------------------------------------------------ state
VARIABLES
    students,      \* table students, in rowid order
    attendance,    \* table attendance, in rowid order
    now,           \* the wall clock, datetime.now()
    pc,            \* per session: the statement its qr_scanner run is at
    local,         \* per session: the locals of its qr_scanner run
    result,        \* per session: the box the scanner page shows
    regResult,     \* the box the registration form last showed
    report         \* what the reports page or the students page last showed

vars == << students, attendance, now, pc, local, result, regResult, report >>

NoLocal ==
    [student_id |-> 0, today |-> <<>>, status |-> "", current_time |-> <<>>]

NoResult ==
    [kind |-> "None", student_id |-> 0, date |-> <<>>, time |-> <<>>,
     status |-> ""]

NoRegResult == [kind |-> "None", barcode |-> ""]

NoReport ==
    [kind |-> "None", total_records |-> 0, present_count |-> 0,
     late_count |-> 0, absent_count |-> 0, entries |-> <<>>]

Range(f) == {f[i] : i \in DOMAIN f}

\* --------------------------------------------------------------- students
\* generate_unique_barcode: a random token, whatever the roster holds.
generate_unique_barcode == BarcodePool

\* IntegrityError as it would be were barcode not declared UNIQUE.
IntegrityErrorRegNoOnly(name, reg_no, department, parent_phone, barcode) ==
    IF \E r \in Range(students) : r.reg_no = reg_no
        THEN "UNIQUE constraint failed: students.reg_no"
    ELSE ""

\* The UNIQUE constraints of table students, as the message of the
\* sqlite3.IntegrityError the INSERT raises ("" when it raises none).
\* SQLite checks the newest index of a table first, so a row that breaks
\* both constraints names barcode.
IntegrityError(name, reg_no, department, parent_phone, barcode) ==
    IF \E r \in Range(students) : r.barcode = barcode
        THEN "UNIQUE constraint failed: students.barcode"
    ELSE IF \E r \in Range(students) : r.reg_no = reg_no
        THEN "UNIQUE constraint failed: students.reg_no"
    ELSE ""

\* "reg_no" in str(e)
MentionsRegNo(msg) == msg = "UNIQUE constraint failed: students.reg_no"

\* FieldsFilled as it would be with parent_phone left out of the test.
FieldsFilledNoPhone(name, reg_no, department, parent_phone) ==
    name # "" /\ reg_no # "" /\ department # ""

\* if name and reg_no and department and parent_phone
FieldsFilled(name, reg_no, department, parent_phone) ==
    name # "" /\ reg_no # "" /\ department # "" /\ parent_phone # ""

\* INSERT INTO students (name, reg_no, department, parent_phone, barcode)
InsertStudent(name, reg_no, department, parent_phone, barcode) ==
    Append(students,
           [id |-> Len(students) + 1, name |-> name, reg_no |-> reg_no,
            department |-> department, parent_phone |-> parent_phone,
            barcode |-> barcode])

\* register_student, on submit of the form.  The roster is capped at
\* MaxStudents rows: a submission that would add one more is not taken.
Register(name, reg_no, department, parent_phone, barcode) ==
    /\ IF ~FieldsFilled(name, reg_no, department, parent_phone)
       THEN /\ regResult' = [kind |-> "ValidationError", barcode |-> ""]
            /\ UNCHANGED students
       ELSE LET e == IntegrityError(name, reg_no, department, parent_phone,
                                    barcode)
            IN IF e = ""
               THEN /\ Len(students) < MaxStudents
                    /\ students' = InsertStudent(name, reg_no, department,
                                                 parent_phone, barcode)
                    /\ regResult' = [kind |-> "Registered",
                                     barcode |-> barcode]
               ELSE /\ UNCHANGED students
                    /\ regResult' =
                         [kind |-> IF MentionsRegNo(e) THEN "DuplicateKey"
                                                       ELSE "DatabaseError",
                          barcode |-> ""]
    /\ UNCHANGED << attendance, now, pc, local, result, report >>

\* ---------------------------------------------------------------- scanner
RECURSIVE StripLeft(_)
StripLeft(text) ==
    IF text # <<>> /\ Head(text) = " " THEN StripLeft(Tail(text)) ELSE text

RECURSIVE StripRight(_)
StripRight(text) ==
    IF text # <<>> /\ text[Len(text)] = " "
        THEN StripRight(SubSeq(text, 1, Len(text) - 1))
        ELSE text

\* scanned_code.strip()
Strip(text) == StripRight(StripLeft(text))

\* FindStudent as it would be with LIKE '%code%' for the comparison: a
\* blank box matches every student.
FindStudentLike(code) ==
    SelectSeq(students, LAMBDA r : code = <<>> \/ <<r.barcode>> = code)

\* SELECT * FROM students WHERE barcode = ? ... fetchone(): the rows that
\* match, in rowid order (the first is the one fetched).
FindStudent(code) ==
    SelectSeq(students, LAMBDA r : <<r.barcode>> = code)

\* ExistingRecords as it would be without "AND date = ?".
ExistingRecordsAnyDate(student_id, today) ==
    SelectSeq(attendance, LAMBDA a : a.student_id = student_id)

\* ExistingRecords as it would be with the date compared to column time.
ExistingRecordsWrongColumn(student_id, today) ==
    SelectSeq(attendance,
              LAMBDA a : a.student_id = student_id /\ a.time = today)

\* SELECT * FROM attendance WHERE student_id = ? AND date = ?: the rows
\* that match, in rowid order (fetchone takes the first).
ExistingRecords(student_id, today) ==
    SelectSeq(attendance,
              LAMBDA a : a.student_id = student_id /\ a.date = today)

\* determine_attendance_status as it would be with < for <=.
determine_attendance_status_strict(current_hour) ==
    IF current_hour < 9 THEN "present"
    ELSE IF current_hour < 10 THEN "late"
    ELSE "absent"

\* determine_attendance_status, on the hour datetime.now().hour gave it.
determine_attendance_status(current_hour) ==
    IF current_hour <= 9 THEN "present"
    ELSE IF current_hour <= 10 THEN "late"
    ELSE "absent"

\* The sessions whose scanner run has found its student and not yet ended.
InProgress == {s \in Sessions : pc[s] # "idle"}

\* "Mark Attendance" pressed with scanned_code in the box: the page is
\* redrawn, and with a non-empty box the student is looked up.  The table is
\* capped at MaxRecords rows: a scan that could add one more is not taken.
ScanSubmit(s, scanned_code) ==
    /\ pc[s] = "idle"
    /\ Len(attendance) + Cardinality(InProgress) < MaxRecords
    /\ IF scanned_code = <<>>
       THEN /\ result' = [result EXCEPT ![s] = NoResult]
            /\ UNCHANGED << pc, local >>
       ELSE LET student_result == FindStudent(Strip(scanned_code))
            IN IF student_result # <<>>
               THEN /\ pc' = [pc EXCEPT ![s] = "today"]
                    /\ local' = [local EXCEPT ![s].student_id =
                                     student_result[1].id]
                    /\ result' = [result EXCEPT ![s] = NoResult]
               ELSE /\ result' = [result EXCEPT ![s] =
                                     [NoResult EXCEPT
                                         !.kind = "UnknownIdentifier"]]
                    /\ UNCHANGED << pc, local >>
    /\ UNCHANGED << students, attendance, now, regResult, report >>

\* today = datetime.now().strftime('%Y-%m-%d')
ScanToday(s) ==
    /\ pc[s] = "today"
    /\ local' = [local EXCEPT ![s].today = FormatDate(now)]
    /\ pc' = [pc EXCEPT ![s] = "check"]
    /\ UNCHANGED << students, attendance, now, result, regResult, report >>

\* existing_record = ... fetchone(); if existing_record: the warning box.
ScanCheck(s) ==
    /\ pc[s] = "check"
    /\ LET existing == ExistingRecords(local[s].student_id, local[s].today)
       IN IF existing # <<>>
          THEN /\ result' = [result EXCEPT ![s] =
                                [kind |-> "AlreadyRecorded",
                                 student_id |-> local[s].student_id,
                                 date |-> local[s].today,
                                 time |-> existing[1].time,
                                 status |-> existing[1].status]]
               /\ pc' = [pc EXCEPT ![s] = "idle"]
               /\ local' = [local EXCEPT ![s] = NoLocal]
          ELSE /\ pc' = [pc EXCEPT ![s] = "status"]
               /\ UNCHANGED << result, local >>
    /\ UNCHANGED << students, attendance, now, regResult, report >>

\* status, emoji = determine_attendance_status()
ScanStatus(s) ==
    /\ pc[s] = "status"
    /\ local' = [local EXCEPT ![s].status =
                     determine_attendance_status(now.hour)]
    /\ pc' = [pc EXCEPT ![s] = "time"]
    /\ UNCHANGED << students, attendance, now, result, regResult, report >>

\* current_time = datetime.now().strftime('%H:%M:%S')
ScanTime(s) ==
    /\ pc[s] = "time"
    /\ local' = [local EXCEPT ![s].current_time = FormatTime(now)]
    /\ pc' = [pc EXCEPT ![s] = "insert"]
    /\ UNCHANGED << students, attendance, now, result, regResult, report >>

\* The insert as INSERT OR REPLACE keyed on the student: a row the student
\* already has is overwritten in place.
ScanInsertReplace(s) ==
    /\ pc[s] = "insert"
    /\ LET row == [id |-> Len(attendance) + 1,
                   student_id |-> local[s].student_id,
                   date |-> local[s].today,
                   time |-> local[s].current_time,
                   status |-> local[s].status]
           old == {i \in DOMAIN attendance :
                     attendance[i].student_id = local[s].student_id}
       IN attendance' =
            IF old = {} THEN Append(attendance, row)
            ELSE [i \in DOMAIN attendance |->
                    IF i \in old THEN [row EXCEPT !.id = i]
                    ELSE attendance[i]]
    /\ result' = [result EXCEPT ![s] =
                     [kind |-> "Recorded",
                      student_id |-> local[s].student_id,
                      date |-> local[s].today,
                      time |-> local[s].current_time,
                      status |-> local[s].status]]
    /\ pc' = [pc EXCEPT ![s] = "idle"]
    /\ local' = [local EXCEPT ![s] = NoLocal]
    /\ UNCHANGED << students, now, regResult, report >>

\* INSERT INTO attendance (student_id, date, time, status); conn.commit();
\* the success box.
ScanInsert(s) ==
    /\ pc[s] = "insert"
    /\ attendance' = Append(attendance,
                            [id |-> Len(attendance) + 1,
                             student_id |-> local[s].student_id,
                             date |-> local[s].today,
                             time |-> local[s].current_time,
                             status |-> local[s].status])
    /\ result' = [result EXCEPT ![s] =
                     [kind |-> "Recorded",
                      student_id |-> local[s].student_id,
                      date |-> local[s].today,
                      time |-> local[s].current_time,
                      status |-> local[s].status]]
    /\ pc' = [pc EXCEPT ![s] = "idle"]
    /\ local' = [local EXCEPT ![s] = NoLocal]
    /\ UNCHANGED << students, now, regResult, report >>

\* The wall clock moves on to the next instant it shows.
Tick ==
    /\ \E t \in SpecInstants :
          /\ Key(t) > Key(now)
          /\ \A u \in SpecInstants : Key(u) > Key(now) => Key(t) <= Key(u)
          /\ now' = t
    /\ UNCHANGED << students, attendance, pc, local, result, regResult, report >>

\* ---------------------------------------------------------------- reports
\* The place of a character of a stored date or time in SQLite's text
\* order: '-' before the digits, ':' after them.
CharRank(c) == IF c = "-" THEN 0 ELSE IF c = ":" THEN 11 ELSE Ord(c) + 1

\* a < b as SQLite compares two texts: character by character, a proper
\* prefix first.
TextLess(a, b) ==
    LET differ == {i \in 1..Len(a) : i <= Len(b) /\ a[i] # b[i]}
    IN IF differ = {}
       THEN Len(a) < Len(b)
       ELSE LET i == CHOOSE j \in differ : \A k \in differ : j <= k
            IN CharRank(a[i]) < CharRank(b[i])

\* x BETWEEN lo AND hi, with < for the upper end.
BetweenOpenEnd(x, lo, hi) ==
    (lo = x \/ TextLess(lo, x)) /\ TextLess(x, hi)

\* x BETWEEN lo AND hi
Between(x, lo, hi) ==
    (lo = x \/ TextLess(lo, x)) /\ (x = hi \/ TextLess(x, hi))

\* FROM attendance a JOIN students s ON a.student_id = s.id, with the
\* columns the report selects, in rowid order.
JoinedRows ==
    LET matched == SelectSeq(attendance,
                       LAMBDA a : \E r \in Range(students) :
                                      r.id = a.student_id)
    IN [i \in 1..Len(matched) |->
          LET st == CHOOSE r \in Range(students) :
                        r.id = matched[i].student_id
          IN [name |-> st.name, reg_no |-> st.reg_no,
              department |-> st.department, date |-> matched[i].date,
              time |-> matched[i].time, status |-> matched[i].status]]

\* ORDER BY a.date DESC, a.time DESC: row a goes before row b.
RowBefore(a, b) ==
    \/ TextLess(b.date, a.date)
    \/ a.date = b.date /\ TextLess(b.time, a.time)

RECURSIVE InsertRow(_, _)
InsertRow(r, sorted) ==
    IF sorted = <<>> THEN << r >>
    ELSE IF RowBefore(Head(sorted), r)
        THEN << Head(sorted) >> \o InsertRow(r, Tail(sorted))
    ELSE << r >> \o sorted

RECURSIVE SortRows(_)
SortRows(rows) ==
    IF rows = <<>> THEN <<>>
    ELSE InsertRow(Head(rows), SortRows(Tail(rows)))

\* report_data = pd.read_sql_query(base_query, conn, params=params)
report_data(start_date, end_date, department_filter) ==
    LET lo == FormatDate(start_date)
        hi == FormatDate(end_date)
    IN SortRows(SelectSeq(JoinedRows,
                  LAMBDA r :
                    /\ Between(r.date, lo, hi)
                    /\ \/ department_filter = "All Departments"
                       \/ r.department = department_filter))

\* The count of the distinct rows with the status, as COUNT(DISTINCT ...)
\* would give it.
CountStatusDistinct(rows, status) ==
    Cardinality({r \in Range(rows) : r.status = status})

\* len(report_data[report_data['status'] == status])
CountStatus(rows, status) ==
    Len(SelectSeq(rows, LAMBDA r : r.status = status))

\* What the reports page shows for the inputs: the four metrics, or the
\* "No attendance records found" note.
SummaryShown(start_date, end_date, department_filter) ==
    LET data == report_data(start_date, end_date, department_filter)
    IN IF data # <<>>
       THEN [kind |-> "Summary",
             total_records |-> Len(data),
             present_count |-> CountStatus(data, "present"),
             late_count |-> CountStatus(data, "late"),
             absent_count |-> CountStatus(data, "absent"),
             entries |-> <<>>]
       ELSE [NoReport EXCEPT !.kind = "NoRecords"]

\* The report as it would be were every row it counts also marked as
\* reported, by rewriting the row in the table.
GenerateReportMarking(start_date, end_date, department_filter) ==
    /\ report' = SummaryShown(start_date, end_date, department_filter)
    /\ attendance' =
          [i \in DOMAIN attendance |->
              IF Between(attendance[i].date, FormatDate(start_date),
                         FormatDate(end_date))
              THEN [attendance[i] EXCEPT !.status = "reported"]
              ELSE attendance[i]]
    /\ UNCHANGED << students, now, pc, local, result, regResult >>

\* attendance_reports, on "Generate Report".
GenerateReport(start_date, end_date, department_filter) ==
    /\ report' = SummaryShown(start_date, end_date, department_filter)
    /\ UNCHANGED << students, attendance, now, pc, local, result,
                    regResult >>

\* num / den, in tenths when num is in thousandths: DataFrame.round(1),
\* a tie going to the even tenth.
RoundTenths(num, den) ==
    LET q == num \div den
        r == num % den
    IN IF 2 * r < den THEN q
       ELSE IF 2 * r > den THEN q + 1
       ELSE IF q % 2 = 0 THEN q ELSE q + 1

\* One row of students_query: a student LEFT JOINed with its attendance
\* rows, GROUP BY s.id, then attendance_rate (in tenths of a percent) and
\* the rate the page writes.
StudentEntry(st) ==
    LET rows == SelectSeq(attendance, LAMBDA a : a.student_id = st.id)
        total == Len(rows)
        present == CountStatus(rows, "present")
        late == CountStatus(rows, "late")
        rate == RoundTenths((present + late) * 1000,
                            IF total = 0 THEN 1 ELSE total)
    IN [id |-> st.id, name |-> st.name,
        total_attendance |-> total,
        present_count |-> present,
        late_count |-> late,
        absent_count |-> CountStatus(rows, "absent"),
        attendance_rate |-> rate,
        shown_rate |-> IF total > 0 THEN rate ELSE 0]

\* The place of a name in ORDER BY s.name.
NameRank(name) ==
    IF name = "" THEN 0 ELSE IF name = "Ann" THEN 1 ELSE 2

RECURSIVE InsertByName(_, _)
InsertByName(e, sorted) ==
    IF sorted = <<>> THEN << e >>
    ELSE IF NameRank(Head(sorted).name) <= NameRank(e.name)
        THEN << Head(sorted) >> \o InsertByName(e, Tail(sorted))
    ELSE << e >> \o sorted

RECURSIVE SortByName(_)
SortByName(es) ==
    IF es = <<>> THEN <<>>
    ELSE InsertByName(es[Len(es)], SortByName(SubSeq(es, 1, Len(es) - 1)))

\* students_data as an inner JOIN would give it: only the students that
\* have attendance rows.
students_dataInnerJoin ==
    SortByName(SelectSeq([i \in 1..Len(students) |->
                             StudentEntry(students[i])],
                         LAMBDA e : e.total_attendance > 0))

\* students_data = pd.read_sql_query(students_query, conn), with the rate.
students_data ==
    SortByName([i \in 1..Len(students) |-> StudentEntry(students[i])])

\* What the students page shows: a card per row of students_data, or the
\* "No students registered yet" note.
StatsShown ==
    IF students_data # <<>>
    THEN [NoReport EXCEPT !.kind = "Stats", !.entries = students_data]
    ELSE [NoReport EXCEPT !.kind = "NoStudents"]

\* all_students, on opening the page.
AllStudents ==
    /\ report' = StatsShown
    /\ UNCHANGED << students, attendance, now, pc, local, result,
                    regResult >>

\* The dates picked in the two date inputs, and the department filters.
ReportDates ==
    {[day |-> d] : d \in (StartDate.day - 1)..(StartDate.day + 1)}
ReportFilters == {"All Departments", DEPARTMENTS[1], DEPARTMENTS[3]}

\* The reports page is used with dates and a filter out of the given
\* pools, or the students page is opened.
Reports(dates, filters) ==
    \/ \E start_date \in dates, end_date \in dates,
          department_filter \in filters :
            GenerateReport(start_date, end_date, department_filter)
    \/ AllStudents

AnyReport == Reports(ReportDates, ReportFilters)

\* --------------------------------------------------------- specifications
Init ==
    /\ students = <<>>
    /\ attendance = <<>>
    /\ now = Instant(StartDate.day, 1)
    /\ pc = [s \in Sessions |-> "idle"]
    /\ local = [s \in Sessions |-> NoLocal]
    /\ result = [s \in Sessions |-> NoResult]
    /\ regResult = NoRegResult
    /\ report = NoReport

\* The registration form submitted with any fields out of the given pools.
RegisterAny(names, reg_nos, departments, phones, barcodes) ==
    \E name \in names, reg_no \in reg_nos, department \in departments,
       parent_phone \in phones, barcode \in barcodes :
        Register(name, reg_no, department, parent_phone, barcode)

\* A session's scanner run takes its next statement.
ScanStep(s) ==
    \/ ScanToday(s)
    \/ ScanCheck(s)
    \/ ScanStatus(s)
    \/ ScanTime(s)
    \/ ScanInsert(s)

\* Spec: the whole program, the sessions' scanner runs interleaved; the
\* registration form is submitted filled in, with one registration number.
Next ==
    \/ RegisterAny({"Ann"}, {"CS001"}, {DEPARTMENTS[1]}, {"+1234567890"},
                   generate_unique_barcode \cap {"3F2A9C1B"})
    \/ \E s \in Sessions, scanned_code \in ScanInputs :
            ScanSubmit(s, scanned_code)
    \/ \E s \in Sessions : ScanStep(s)
    \/ Tick

Spec == Init /\ [][Next]_vars

\* SeqSpec: the program used from one session: a scan is submitted only
\* when no scanner run is under way; the registration form is submitted
\* filled in, with one of two registration numbers.
SeqScanSubmit(s, scanned_code) ==
    /\ InProgress = {}
    /\ ScanSubmit(s, scanned_code)

SeqNext ==
    \/ RegisterAny({"Ann"}, {"CS001", "CS002"}, {DEPARTMENTS[1]},
                   {"+1234567890"},
                   generate_unique_barcode \cap {"3F2A9C1B", "7D40E8A6"})
    \/ \E scanned_code \in ScanInputs : SeqScanSubmit("s1", scanned_code)
    \/ ScanStep("s1")
    \/ Tick

SeqSpec == Init /\ [][SeqNext]_vars

\* RegSpec: the registration form alone, with every field out of its pool.
RegNext ==
    RegisterAny(NameInputs, RegNoInputs, DeptInputs, PhoneInputs,
                generate_unique_barcode)

RegSpec == Init /\ [][RegNext]_vars

\* ClockSpec: one student on the roster and the clock at any hour of the
\* day; one session scans that student's code.
ClockInstants ==
    { [day |-> StartDate.day, hour |-> h, minute |-> m, second |-> sec] :
        h \in 0..23, m \in {0, 30, 59}, sec \in {0, 59} }

ClockInit ==
    /\ students = << [id |-> 1, name |-> "Ann", reg_no |-> "CS001",
                      department |-> DEPARTMENTS[1],
                      parent_phone |-> "+1234567890",
                      barcode |-> "3F2A9C1B"] >>
    /\ attendance = <<>>
    /\ now \in ClockInstants
    /\ pc = [s \in Sessions |-> "idle"]
    /\ local = [s \in Sessions |-> NoLocal]
    /\ result = [s \in Sessions |-> NoResult]
    /\ regResult = [kind |-> "Registered", barcode |-> "3F2A9C1B"]
    /\ report = NoReport

ClockNext ==
    \/ \E scanned_code \in ScanInputs : ScanSubmit("s1", scanned_code)
    \/ ScanStep("s1")

ClockSpec == ClockInit /\ [][ClockNext]_vars

\* FullSpec: registrations, check-ins from one session, the clock and both
\* report pages, in any order; the report is the one of the first day.
FullDates == {[day |-> StartDate.day]}
FullFilters == {"All Departments"}

FullNext ==
    \/ RegisterAny({"Ann"}, {"CS001"}, {DEPARTMENTS[1]}, {"+1234567890"},
                   generate_unique_barcode \cap {"3F2A9C1B"})
    \/ \E scanned_code \in ScanInputs : SeqScanSubmit("s1", scanned_code)
    \/ ScanStep("s1")
    \/ Tick
    \/ Reports(FullDates, FullFilters)

FullSpec == Init /\ [][FullNext]_vars

\* ReportSpec: the report pages over every small content of the two tables
\* that registrations and check-ins leave behind.
\* The students of such a roster, in the order they registered.
RosterRows ==
    << [name |-> "Bob", reg_no |-> "CS001", barcode |-> "3F2A9C1B"],
       [name |-> "Ann", reg_no |-> "CS002", barcode |-> "7D40E8A6"],
       [name |-> "Bob", reg_no |-> "CS003", barcode |-> "0B9E55F1"] >>

Roster(departments) ==
    [i \in 1..Len(departments) |->
        [id |-> i, name |-> RosterRows[i].name,
         reg_no |-> RosterRows[i].reg_no, department |-> departments[i],
         parent_phone |-> "+1234567890", barcode |-> RosterRows[i].barcode]]

Rosters ==
    UNION { {Roster(d) : d \in [1..n -> DeptInputs]} : n \in 0..MaxStudents }

\* The row a check-in of student student_id at instant t leaves, as row k.
RowAt(k, student_id, t) ==
    [id |-> k, student_id |-> student_id, date |-> FormatDate(t),
     time |-> FormatTime(t), status |-> determine_attendance_status(t.hour)]

\* The instants of the check-ins behind such a table.
ReportInstants ==
    { Instant(StartDate.day, 1), Instant(StartDate.day + 1, 2),
      Instant(StartDate.day + 1, 3) }

\* The attendance tables of at most MaxRecords rows over n students: any
\* student at any instant, repeats included, in the order of the clock.
AttendanceTables(n) ==
    UNION { { [k \in 1..m |-> RowAt(k, g[k][1], g[k][2])] :
                g \in { h \in [1..m -> (1..n) \X ReportInstants] :
                          \A k \in 1..(m - 1) :
                              Key(h[k][2]) <= Key(h[k + 1][2]) } } :
            m \in 0..MaxRecords }

ReportInit ==
    /\ students \in Rosters
    /\ attendance \in AttendanceTables(Len(students))
    /\ now = Instant(StartDate.day + 1, 3)
    /\ pc = [s \in Sessions |-> "idle"]
    /\ local = [s \in Sessions |-> NoLocal]
    /\ result = [s \in Sessions |-> NoResult]
    /\ regResult = NoRegResult
    /\ report = NoReport

ReportSpec == ReportInit /\ [][AnyReport]_vars

\* ----------------------------------------------------------------- claims
\* How many attendance rows of table tbl are for (student_id, date).
CountRecords(tbl, student_id, date) ==
    Cardinality({i \in DOMAIN tbl :
                    tbl[i].student_id = student_id /\ tbl[i].date = date})

\* The hour, and the second of the day, a stored 'HH:MM:SS' text says.
HourOf(time) == Ord(time[1]) * 10 + Ord(time[2])
MinuteOf(time) == Ord(time[4]) * 10 + Ord(time[5])
SecondOf(time) == Ord(time[7]) * 10 + Ord(time[8])
SecondOfDay(time) == (HourOf(time) * 60 + MinuteOf(time)) * 60 + SecondOf(time)

\* C1: for every (student_id, date) pair at most one attendance record
\* exists, also when two check-ins for the same student and day interleave
\* their existence check and their insert.
C1_AtMostOneRecordPerStudentDay ==
    \A i, j \in DOMAIN attendance :
        (/\ attendance[i].student_id = attendance[j].student_id
         /\ attendance[i].date = attendance[j].date) => i = j

\* C2: used from one session at a time, a check-in of a registered student
\* that finds no record for (student, date) ends Recorded, one that finds a
\* record ends AlreadyRecorded, and either way exactly one record for
\* (student, date) exists afterward: two check-ins in a row on one date
\* give Recorded, then AlreadyRecorded, and one record.
C2_SequentialCheckinIdempotent ==
    [][\A s \in Sessions :
          (pc[s] \in {"check", "insert"} /\ pc'[s] = "idle") =>
            LET sid == local[s].student_id
                d == local[s].today
            IN /\ CountRecords(attendance', sid, d) = 1
               /\ CountRecords(attendance, sid, d) = 0 =>
                     result'[s].kind = "Recorded"
               /\ CountRecords(attendance, sid, d) > 0 =>
                     result'[s].kind = "AlreadyRecorded"]_vars

\* C2's case: a check-in has ended AlreadyRecorded for a (student, date)
\* that has its one record, the one an earlier check-in recorded.
C2_Witness ==
    /\ result["s1"].kind = "AlreadyRecorded"
    /\ CountRecords(attendance, result["s1"].student_id,
                    result["s1"].date) = 1

\* C3: the status of a check-in is a function of the hour alone: an hour of
\* 9 or less gives present, hour 10 gives late, an hour above 10 gives
\* absent, whatever the minutes and seconds.
C3_StatusIsFunctionOfHour ==
    /\ \A i \in DOMAIN attendance :
          LET h == HourOf(attendance[i].time)
          IN /\ h <= 9 => attendance[i].status = "present"
             /\ h = 10 => attendance[i].status = "late"
             /\ h > 10 => attendance[i].status = "absent"
    /\ \A s \in Sessions :
          pc[s] \in {"time", "insert"} =>
             /\ now.hour <= 9 => local[s].status = "present"
             /\ now.hour = 10 => local[s].status = "late"
             /\ now.hour > 10 => local[s].status = "absent"

\* C3's case: a check-in at 10:59:59 is stored as late.
C3_Witness ==
    \E i \in DOMAIN attendance :
        /\ attendance[i].time = << "1", "0", ":", "5", "9", ":", "5", "9" >>
        /\ attendance[i].status = "late"

\* C4: as the scanner's explanation says, a check-in is present only if it
\* arrived before 9:00 AM, late only if it arrived between 9:00 AM and
\* 10:00 AM, absent only if it arrived after 10:00 AM (the minutes 9:00
\* and 10:00 themselves count for either side).
C4_ExplanationMatchesArrival ==
    \A i \in DOMAIN attendance :
        LET t == SecondOfDay(attendance[i].time)
        IN /\ attendance[i].status = "present" => t <= 9 * 3600 + 59
           /\ attendance[i].status = "late" =>
                 (9 * 3600 <= t /\ t <= 10 * 3600 + 59)
           /\ attendance[i].status = "absent" => t >= 10 * 3600

\* C5: a check-in whose scanned text, stripped, is the barcode of no
\* student shows UnknownIdentifier and writes nothing: students and
\* attendance are as before.
C5_UnknownIdentifierWritesNothing ==
    [][\A s \in Sessions, scanned_code \in ScanInputs :
          (/\ ScanSubmit(s, scanned_code)
           /\ scanned_code # <<>>
           /\ ~ \E r \in Range(students) :
                   Strip(scanned_code) = <<r.barcode>>) =>
            /\ result'[s].kind = "UnknownIdentifier"
            /\ pc'[s] = "idle"
            /\ students' = students
            /\ attendance' = attendance]_vars

\* C5's case: with a student on the roster, a scan has ended
\* UnknownIdentifier.
C5_Witness ==
    /\ students # <<>>
    /\ \E s \in Sessions : result[s].kind = "UnknownIdentifier"

\* C6: a check-in whose existence check finds a record for (student, date)
\* shows AlreadyRecorded with the time and status of that record (the first
\* stored for the pair) and writes nothing: the tables are as before.
C6_AlreadyRecordedCarriesFirst ==
    [][\A s \in Sessions :
          (/\ pc[s] = "check"
           /\ pc'[s] # "check"
           /\ CountRecords(attendance, local[s].student_id,
                           local[s].today) > 0) =>
            LET first == CHOOSE i \in DOMAIN attendance :
                    /\ attendance[i].student_id = local[s].student_id
                    /\ attendance[i].date = local[s].today
                    /\ \A j \in 1..(i - 1) :
                          ~ (/\ attendance[j].student_id = local[s].student_id
                             /\ attendance[j].date = local[s].today)
            IN /\ result'[s].kind = "AlreadyRecorded"
               /\ result'[s].time = attendance[first].time
               /\ result'[s].status = attendance[first].status
               /\ pc'[s] = "idle"
               /\ attendance' = attendance
               /\ students' = students]_vars

\* C6's case: a later check-in of the day, at another time of day, has
\* ended AlreadyRecorded showing the stored record's time.
C6_Witness ==
    \E s \in Sessions :
        /\ result[s].kind = "AlreadyRecorded"
        /\ result[s].time # FormatTime(now)
        /\ \E i \in DOMAIN attendance :
              /\ attendance[i].student_id = result[s].student_id
              /\ attendance[i].date = result[s].date
              /\ attendance[i].time = result[s].time
              /\ attendance[i].status = result[s].status

\* C7: a registration whose registration number is already on the roster
\* fails with DuplicateKey and leaves the students table as it was.
C7_DuplicateRegNoIsDuplicateKey ==
    [][\A name \in NameInputs, reg_no \in RegNoInputs,
          department \in DeptInputs, parent_phone \in PhoneInputs,
          barcode \in BarcodePool :
          (/\ Register(name, reg_no, department, parent_phone, barcode)
           /\ name # "" /\ reg_no # "" /\ parent_phone # ""
           /\ \E r \in Range(students) : r.reg_no = reg_no) =>
            /\ regResult'.kind = "DuplicateKey"
            /\ students' = students]_vars

\* C8: no two students of the roster have the same scan identifier, and a
\* successful registration returns the identifier of the row it added, so
\* no two successful registrations return the same one.
C8_ScanIdentifiersUnique ==
    /\ \A i, j \in DOMAIN students :
          students[i].barcode = students[j].barcode => i = j
    /\ regResult.kind = "Registered" =>
          /\ students # <<>>
          /\ regResult.barcode = students[Len(students)].barcode

\* C8's case: two students are registered, and a registration that drew a
\* barcode already on the roster has been turned down.
C8_Witness ==
    /\ Len(students) = 2
    /\ regResult.kind = "DatabaseError"

\* C9: a registration with all fields filled and a registration number not
\* on the roster always ends with the student persisted, never with an
\* error, whatever identifier was generated.
C9_FreshRegistrationPersists ==
    [][\A name \in NameInputs, reg_no \in RegNoInputs,
          department \in DeptInputs, parent_phone \in PhoneInputs,
          barcode \in BarcodePool :
          (/\ Register(name, reg_no, department, parent_phone, barcode)
           /\ name # "" /\ reg_no # "" /\ parent_phone # ""
           /\ ~ \E r \in Range(students) : r.reg_no = reg_no) =>
            /\ regResult'.kind = "Registered"
            /\ Len(students') = Len(students) + 1
            /\ students'[Len(students')].reg_no = reg_no]_vars

\* C10: a registration with one of the four fields empty, or a department
\* outside the department list, shows a validation error and leaves the
\* students table as it was; no row with an empty field or an unlisted
\* department is ever stored.
C10_InvalidRegistrationRejected ==
    [][/\ \A name \in NameInputs, reg_no \in RegNoInputs,
            department \in DeptInputs, parent_phone \in PhoneInputs,
            barcode \in BarcodePool :
            (/\ Register(name, reg_no, department, parent_phone, barcode)
             /\ \/ name = "" \/ reg_no = "" \/ department = ""
                \/ parent_phone = "" \/ department \notin DepartmentSet) =>
              /\ regResult'.kind = "ValidationError"
              /\ students' = students
       /\ \A r \in Range(students') :
            /\ r.name # "" /\ r.reg_no # "" /\ r.parent_phone # ""
            /\ r.department \in DepartmentSet]_vars

\* C10's case: with a student on the roster, a submission with an empty
\* field has been turned down.
C10_Witness ==
    /\ students # <<>>
    /\ regResult.kind = "ValidationError"

\* C11: a stored attendance record is never changed and never deleted:
\* whatever step is taken -- a registration, a step of a check-in, a tick of
\* the clock, a report -- every row the table holds is still there, at the
\* same place and with the same fields, after it.
C11_RecordsNeverChange ==
    [][/\ Len(attendance') >= Len(attendance)
       /\ \A i \in DOMAIN attendance : attendance'[i] = attendance[i]]_vars

\* C11 witness: a record was stored, then a later check-in stored another
\* one and a summary was shown over the table.
C11_Witness ==
    /\ Len(attendance) >= 2
    /\ attendance[1].student_id = attendance[2].student_id
    /\ report.kind = "Summary"
    /\ report.total_records >= 1

\* C12: whatever the date range and the department filter, the metrics of
\* the summary partition: present_count + late_count + absent_count equals
\* total_records.
C12_SummaryCountsPartition ==
    report.kind \in {"Summary", "NoRecords"} =>
        report.present_count + report.late_count + report.absent_count
            = report.total_records

\* C12 witness: a summary over several records of more than one status.
C12_Witness ==
    /\ report.kind = "Summary"
    /\ report.total_records >= 2
    /\ report.present_count >= 1
    /\ report.late_count >= 1

\* The day of the month a stored 'YYYY-MM-DD' text says.
DayOf(date) == Ord(date[9]) * 10 + Ord(date[10])

\* The attendance rows a summary has to count: the day within the range,
\* both ends included, and the row's student in the department when one is
\* picked.  status "" stands for any status.
RowsToCount(start_date, end_date, department_filter, status) ==
    {i \in DOMAIN attendance :
        /\ start_date.day <= DayOf(attendance[i].date)
        /\ DayOf(attendance[i].date) <= end_date.day
        /\ \/ department_filter = "All Departments"
           \/ \E st \in Range(students) :
                 /\ st.id = attendance[i].student_id
                 /\ st.department = department_filter
        /\ status \in {"", attendance[i].status}}

\* C13: for the tables in any state, the summary shown for
\* (start_date, end_date, department_filter) counts exactly the attendance
\* records dated from start_date to end_date, both included, of students of
\* the department when one is picked: none more, none less, in total and
\* per status; with start_date after end_date it counts nothing.
C13_SummaryCountsRange ==
    \A start_date \in ReportDates, end_date \in ReportDates,
       department_filter \in ReportFilters :
        LET shown == SummaryShown(start_date, end_date, department_filter)
        IN /\ shown.total_records = Cardinality(
                 RowsToCount(start_date, end_date, department_filter, ""))
           /\ shown.present_count = Cardinality(
                 RowsToCount(start_date, end_date, department_filter,
                             "present"))
           /\ shown.late_count = Cardinality(
                 RowsToCount(start_date, end_date, department_filter,
                             "late"))
           /\ shown.absent_count = Cardinality(
                 RowsToCount(start_date, end_date, department_filter,
                             "absent"))
           /\ start_date.day > end_date.day => shown.kind = "NoRecords"

\* C13 witness: a summary that counted some of the records and left others
\* out.
C13_Witness ==
    /\ report.kind = "Summary"
    /\ report.total_records >= 1
    /\ report.total_records < Len(attendance)

\* The attendance rows of a student, of one status or ("") of any.
RowsOf(student_id, status) ==
    {i \in DOMAIN attendance :
        /\ attendance[i].student_id = student_id
        /\ status \in {"", attendance[i].status}}

\* C14: the students page has one entry for every registered student, the
\* students without attendance records included; an entry's total is the
\* number of the student's records and equals present + late + absent; the
\* rate is (present + late) / total * 100 to one decimal; a student without
\* records has total 0 and rate 0.
C14_StatsPerStudent ==
    [][AllStudents =>
        /\ Len(report'.entries) = Len(students)
        /\ \A st \in Range(students) :
              \E k \in DOMAIN report'.entries :
                 LET e == report'.entries[k]
                 IN /\ e.id = st.id
                    /\ \A j \in DOMAIN report'.entries :
                          report'.entries[j].id = st.id => j = k
                    /\ e.total_attendance = Cardinality(RowsOf(st.id, ""))
                    /\ e.present_count = Cardinality(RowsOf(st.id, "present"))
                    /\ e.late_count = Cardinality(RowsOf(st.id, "late"))
                    /\ e.absent_count = Cardinality(RowsOf(st.id, "absent"))
                    /\ e.total_attendance =
                          e.present_count + e.late_count + e.absent_count
                    /\ e.total_attendance = 0 => e.shown_rate = 0
                    /\ e.total_attendance > 0 =>
                          LET exact == (e.present_count + e.late_count) * 1000
                              shown == e.shown_rate * e.total_attendance
                          IN /\ 2 * (shown - exact) <= e.total_attendance
                             /\ 2 * (exact - shown) <= e.total_attendance]_vars

\* C14 witness: the students page shown for a roster where one student has
\* no record and another has records of which half count as attended.
C14_Witness ==
    /\ report.kind = "Stats"
    /\ \E e \in Range(report.entries) :
          e.total_attendance = 0 /\ e.shown_rate = 0
    /\ \E e \in Range(report.entries) :
          e.total_attendance >= 2 /\ e.shown_rate = 500

\* C15: every stored attendance record comes from one reading of the
\* clock: there is an instant the clock has shown whose date is the
\* record's date, whose time of day is the record's time and whose hour
\* gives the record's status, also when the clock passes an hour or a day
\* boundary while the check-in is processed.
C15_RecordFromOneInstant ==
    \A i \in DOMAIN attendance :
        \E t \in SpecInstants :
            /\ Key(t) <= Key(now)
            /\ attendance[i] = RowAt(i, attendance[i].student_id, t)

\* C16: the two reports only read.  A step that changes what the report
\* pages show leaves the students and attendance tables as they were, and
\* what it shows is what the tables and the inputs alone give: so the same
\* report run again, with no write in between, shows the same.
C16_ReportsArePureReads ==
    [][report' # report =>
          /\ students' = students
          /\ attendance' = attendance
          /\ \/ \E start_date \in FullDates, end_date \in FullDates,
                   department_filter \in FullFilters :
                     report' = SummaryShown(start_date, end_date,
                                            department_filter)
             \/ report' = StatsShown]_vars

\* C16 witness: the students page shown over a table with records, all of
\* them of one student.
C16_Witness ==
    /\ report.kind = "Stats"
    /\ Len(attendance) >= 1
    /\ \E e \in Range(report.entries) :
          e.total_attendance = Len(attendance)

====
